---------------------------- MODULE Spec2Model ----------------------------
(***************************************************************************)
(* A model of src/src/prng.rs: the Yarrow generator (seed, pool,           *)
(* last_reseed_time and the operations on them) and the clock-driven       *)
(* Fisher-Yates shuffle.                                                   *)
(*                                                                         *)
(* Machine integers.  TLC's integers are 32 bits wide, so a u64 is kept as *)
(* four 16-bit limbs, least significant first, and every operation of the  *)
(* source on a u64 (wrapping_mul, wrapping_add, ^, <<, |, -, +, %, the     *)
(* comparisons, to_be_bytes) is computed on the limbs with the width of    *)
(* the source: 64 bits.  A u128 (Duration::as_nanos) is eight limbs.       *)
(*                                                                         *)
(* The digest.  Sha3_512 belongs to the sha3 crate, not to this            *)
(* repository.  It is modelled by a deterministic function of the whole    *)
(* input (every byte and its position) to DigestLen bytes: the interface   *)
(* the generator relies on.  The bytes it yields are not those of SHA3.    *)
(*                                                                         *)
(* Evaluation.  The source computes each intermediate value once, in       *)
(* order.  Bind(e, F) is F(e) with e evaluated once, before F: it is how   *)
(* the statements of a function body are sequenced here.                   *)
(***************************************************************************)
EXTENDS Integers, Sequences, FiniteSets, TLC

\* F(e), e evaluated once.
Bind(e, F(_)) == CHOOSE y \in {F(x) : x \in {e}} : TRUE

\* ------------------------------------------------------------------ bounds

\* Calls made on one generator instance in one behaviour.
MaxCalls == 2

\* generate_random_bytes is called with count in 0..MaxCount.
MaxCount == 2

\* add_entropy is not called once the pool holds this many digests.
MaxPoolDigests == 2

\* shuffle is called on sequences of length 0..MaxLen.
MaxLen == 5

\* -------------------------------------------------------- machine integers

\* The base of a limb: 16 bits.
LimbBase == 65536

\* The width of a byte: u8.
ByteBase == 256

\* Limbs of a u64.
Limbs64 == 4

\* Bytes of a u64: generate_random_number packs this many.
Bytes64 == 8

\* Sha3_512's output width in bytes.
DigestLen == 64

\* The reseed gate in seconds.
ReseedGate == 60

\* The multiplier of combine_entropy's rolling hash.
HashMul == 33

Byte == 0 .. (ByteBase - 1)

Limb == 0 .. (LimbBase - 1)

\* The u64 of a natural number below 2^31.
U64(n) == <<n % LimbBase, n \div LimbBase, 0, 0>>

\* u64::MAX.
U64Max == <<LimbBase - 1, LimbBase - 1, LimbBase - 1, LimbBase - 1>>

\* a ^ b on one limb.
RECURSIVE XorLimb(_, _)
XorLimb(a, b) ==
    IF a = 0 THEN b
    ELSE IF b = 0 THEN a
    ELSE ((a + b) % 2) + 2 * XorLimb(a \div 2, b \div 2)

\* x ^ y on u64.
Xor64(x, y) == [i \in 1 .. Limbs64 |-> XorLimb(x[i], y[i])]

\* A faulty step of the rolling hash: it saturates at u64::MAX.
MulAdd64_saturating(x, b) ==
    LET p1 == x[1] * HashMul + b
        p2 == x[2] * HashMul + (p1 \div LimbBase)
        p3 == x[3] * HashMul + (p2 \div LimbBase)
        p4 == x[4] * HashMul + (p3 \div LimbBase)
    IN  IF p4 >= LimbBase THEN U64Max
        ELSE <<p1 % LimbBase, p2 % LimbBase, p3 % LimbBase, p4 % LimbBase>>

\* x.wrapping_mul(HashMul).wrapping_add(b), b a byte: the carry out of the
\* top limb is dropped.
MulAdd64(x, b) ==
    LET p1 == x[1] * HashMul + b
        p2 == x[2] * HashMul + (p1 \div LimbBase)
        p3 == x[3] * HashMul + (p2 \div LimbBase)
        p4 == x[4] * HashMul + (p3 \div LimbBase)
    IN  <<p1 % LimbBase, p2 % LimbBase, p3 % LimbBase, p4 % LimbBase>>

\* x + y on u64: the wrapped sum and whether it overflowed.
Add64(x, y) ==
    LET s1 == x[1] + y[1]
        s2 == x[2] + y[2] + (s1 \div LimbBase)
        s3 == x[3] + y[3] + (s2 \div LimbBase)
        s4 == x[4] + y[4] + (s3 \div LimbBase)
    IN  [val |-> <<s1 % LimbBase, s2 % LimbBase, s3 % LimbBase, s4 % LimbBase>>,
         overflow |-> s4 >= LimbBase]

\* x < y on u64.
Lt64(x, y) ==
    \E i \in 1 .. Limbs64 :
        /\ x[i] < y[i]
        /\ \A k \in (i + 1) .. Limbs64 : x[k] = y[k]

\* x <= y on u64.
Le64(x, y) == ~Lt64(y, x)

\* x - y on u64: the wrapped difference and whether it underflowed.
Sub64(x, y) ==
    LET d1 == x[1] - y[1]
        b1 == IF d1 < 0 THEN 1 ELSE 0
        d2 == x[2] - y[2] - b1
        b2 == IF d2 < 0 THEN 1 ELSE 0
        d3 == x[3] - y[3] - b2
        b3 == IF d3 < 0 THEN 1 ELSE 0
        d4 == x[4] - y[4] - b3
    IN  [val |-> <<d1 % LimbBase, d2 % LimbBase, d3 % LimbBase, d4 % LimbBase>>,
         overflow |-> d4 < 0]

\* Bit k (0 the least significant) of a u64.
Bit64(x, k) ==
    LET limb == x[(k \div 16) + 1]
    IN  (limb \div (2 ^ (k % 16))) % 2

\* One step of binary long division: the remainder r < m takes in one more
\* bit of the dividend; 2r + bit < 2m is brought back below m by one
\* subtraction (the bit shifted out of 64 bits is kept in the comparison).
RemBit(m, r, bit) ==
    Bind(Add64(r, r), LAMBDA dbl :
    Bind(Add64(dbl.val, U64(bit)), LAMBDA sh :
        IF dbl.overflow \/ sh.overflow \/ ~Lt64(sh.val, m)
        THEN Sub64(sh.val, m).val
        ELSE sh.val))

\* The remainder after bits hi down to lo of n have been taken in, r being
\* the remainder before them: the upper half of the range, then the lower.
RECURSIVE RemBits(_, _, _, _, _)
RemBits(n, m, hi, lo, r) ==
    IF hi < lo THEN r
    ELSE IF hi = lo THEN RemBit(m, r, Bit64(n, hi))
    ELSE Bind(RemBits(n, m, hi, (hi + lo + 1) \div 2, r), LAMBDA upper :
              RemBits(n, m, ((hi + lo + 1) \div 2) - 1, lo, upper))

\* A faulty %: the dividend is not reduced.
Unreduced(n, m) == n

\* n % m on u64, m not zero.
Rem64(n, m) == RemBits(n, m, 63, 0, U64(0))

\* A faulty encoding: the least significant byte first.
to_le_bytes(x) ==
    <<x[1] % ByteBase, x[1] \div ByteBase, x[2] % ByteBase, x[2] \div ByteBase,
      x[3] % ByteBase, x[3] \div ByteBase, x[4] % ByteBase, x[4] \div ByteBase>>

\* u64::to_be_bytes: the most significant byte first.
to_be_bytes(x) ==
    <<x[4] \div ByteBase, x[4] % ByteBase, x[3] \div ByteBase, x[3] % ByteBase,
      x[2] \div ByteBase, x[2] % ByteBase, x[1] \div ByteBase, x[1] % ByteBase>>

\* A faulty mask: entropy & 0xFFFF.
LowLimb(x) == x[1]

\* (entropy & 0xFF) as u8.
LowByte(x) == x[1] % ByteBase

\* (x << 8) | u64::from(b): the top byte is shifted out.
ShlOr8(x, b) ==
    <<(x[1] % ByteBase) * ByteBase + b,
      (x[2] % ByteBase) * ByteBase + (x[1] \div ByteBase),
      (x[3] % ByteBase) * ByteBase + (x[2] \div ByteBase),
      (x[4] % ByteBase) * ByteBase + (x[3] \div ByteBase)>>

\* ------------------------------------------------------------- the digest

\* Sha3_512::update of one byte.
AbsorbByte(s, b) ==
    <<(s[1] * 131 + b + 1) % 32749, (s[2] * 137 + b * 7 + s[1] + 3) % 32719>>

\* Sha3_512::update of bytes[lo..hi] in order, from state s: the left half
\* of the range, then the right.
RECURSIVE Absorb(_, _, _, _)
Absorb(bytes, lo, hi, s) ==
    IF lo > hi THEN s
    ELSE IF lo = hi THEN AbsorbByte(s, bytes[lo])
    ELSE Bind(Absorb(bytes, lo, (lo + hi) \div 2, s), LAMBDA left :
              Absorb(bytes, ((lo + hi) \div 2) + 1, hi, left))

\* Sha3_512::new, update (of every part, in order) and finalize: DigestLen
\* bytes that depend on every input byte and on its position.
Sha3_512(bytes) ==
    Bind(bytes, LAMBDA input :
    Bind(Absorb(input, 1, Len(input), <<1, 2>>), LAMBDA s :
        [i \in 1 .. DigestLen |->
            ((s[1] * (i + 7) + s[2] * (2 * i + 13) + i * i) % 65521)
                % ByteBase]))

\* ---------------------------------------------------------- the generator

\* The inputs of the model's calls.

\* Yarrow::new(seed): the tests' seed, and 2^64 - 54283, a seed with every
\* high bit set for which generate_random_bytes(1) called twice, the clock
\* reading 61, returns the byte 245 both times (with SHA3-512 as with the
\* digest modelled here).
Seeds == {U64(12345), <<11253, LimbBase - 1, LimbBase - 1, LimbBase - 1>>}

\* add_entropy(v), reseed(v): zero and the tests' value.
Values == {U64(0), U64(67890)}

\* mix_entropy(e) called directly.
MixValues == {U64(123)}

\* as_secs() of the clock.  From last_reseed_time = 0: 60 is at the gate, 61
\* and 122 beyond it.  From last_reseed_time = 61: 122 is 61 later, 61 is 0
\* later, 60 is earlier.  The clock is the wall clock (SystemTime): a later
\* reading may be smaller.  It is never before UNIX_EPOCH: duration_since
\* returns Ok.
ClockSecs == {U64(60), U64(61), U64(122)}

\* generate_bounded_number(min, max): the tests' range, the widest range
\* whose width fits 64 bits, a range that ends at u64::MAX, and a range
\* with max < min.
Ranges ==
    { <<U64(10), U64(20)>>,
      <<U64(0), <<LimbBase - 2, LimbBase - 1, LimbBase - 1, LimbBase - 1>> >>,
      <<<<LimbBase - 11, LimbBase - 1, LimbBase - 1, LimbBase - 1>>, U64Max>>,
      <<U64(20), U64(10)>> }

\* A generator: the fields of struct Yarrow.
Yarrow(s, p, l) == [seed |-> s, pool |-> p, last_reseed_time |-> l]

\* Yarrow::new.
new(s) == Yarrow(s, <<>>, U64(0))

\* A faulty add_entropy: the seed takes the entropy in as well.
add_entropy_seed(g, entropy) ==
    [g EXCEPT !.pool = @ \o Sha3_512(to_be_bytes(entropy)),
              !.seed = Xor64(@, entropy)]

\* add_entropy: the digest of the 8 big-endian bytes of entropy is appended
\* to the pool.
add_entropy(g, entropy) ==
    [g EXCEPT !.pool = @ \o Sha3_512(to_be_bytes(entropy))]

\* The loop of combine_entropy over pool[lo..hi], in insertion order, from
\* the running value c: the left half of the range, then the right.
RECURSIVE FoldPool(_, _, _, _)
FoldPool(p, lo, hi, c) ==
    IF lo > hi THEN c
    ELSE IF lo = hi THEN MulAdd64(c, p[lo])
    ELSE Bind(FoldPool(p, lo, (lo + hi) \div 2, c), LAMBDA left :
              FoldPool(p, ((lo + hi) \div 2) + 1, hi, left))

\* combine_entropy.
combine_entropy(g) ==
    Bind(FoldPool(g.pool, 1, Len(g.pool), g.seed), LAMBDA combined_entropy :
        Xor64(combined_entropy, g.last_reseed_time))

\* A faulty mix_entropy: the digest is appended to the pool.
mix_append(g, entropy) ==
    [g EXCEPT !.pool = @ \o Sha3_512(@ \o to_be_bytes(entropy))]

\* mix_entropy: the pool is replaced by the digest of the pool followed by
\* the 8 big-endian bytes of entropy.
mix_entropy(g, entropy) ==
    [g EXCEPT !.pool = Sha3_512(@ \o to_be_bytes(entropy))]

\* A faulty reseed: nothing is added and nothing mixed.
reseed_skip(g, new_seed) == g

\* A faulty reseed: combine_entropy is evaluated before add_entropy.
reseed_combine_first(g, new_seed) ==
    Bind(combine_entropy(g), LAMBDA combined_entropy :
        mix_entropy(add_entropy(g, new_seed), combined_entropy))

\* reseed up to its reading of the clock: add_entropy(new_seed), then
\* combine_entropy, then mix_entropy of the combined value.
reseed_mix(g, new_seed) ==
    Bind(add_entropy(g, new_seed), LAMBDA g1 :
    Bind(combine_entropy(g1), LAMBDA combined_entropy :
        mix_entropy(g1, combined_entropy)))

\* A faulty gate: it fires from 60 seconds on.
reseed_gate_from60(g2, new_seed, current_time, checked) ==
    Bind(Sub64(current_time, g2.last_reseed_time), LAMBDA elapsed :
    Bind(~(elapsed.overflow /\ checked)
             /\ ~Lt64(elapsed.val, U64(ReseedGate)), LAMBDA fire :
        [g |-> IF fire
               THEN [g2 EXCEPT !.last_reseed_time = current_time,
                               !.seed = Xor64(@, new_seed)]
               ELSE g2,
         underflow |-> elapsed.overflow,
         panicked |-> elapsed.overflow /\ checked, fired |-> fire]))

\* A faulty gate: it stores the time from which the next reseed is allowed.
reseed_gate_ahead(g2, new_seed, current_time, checked) ==
    Bind(Sub64(current_time, g2.last_reseed_time), LAMBDA elapsed :
    Bind(~(elapsed.overflow /\ checked)
             /\ Lt64(U64(ReseedGate), elapsed.val), LAMBDA fire :
        [g |-> IF fire
               THEN [g2 EXCEPT !.last_reseed_time =
                                   Add64(current_time, U64(ReseedGate)).val,
                               !.seed = Xor64(@, new_seed)]
               ELSE g2,
         underflow |-> elapsed.overflow,
         panicked |-> elapsed.overflow /\ checked, fired |-> fire]))

\* reseed from its reading of the clock, current_time, on the mixed
\* generator g2, in a build with overflow checks (checked) or without.  The
\* result: the generator after the call, whether the subtraction
\* underflowed, whether the call panicked (the underflow in a checked build),
\* whether the gate fired (current_time - self.last_reseed_time > 60, the
\* subtraction wrapped).
reseed_gate(g2, new_seed, current_time, checked) ==
    Bind(Sub64(current_time, g2.last_reseed_time), LAMBDA elapsed :
    Bind(elapsed.overflow /\ checked, LAMBDA panic :
    Bind(~panic /\ Lt64(U64(ReseedGate), elapsed.val), LAMBDA fire :
        [g |-> IF fire
               THEN [g2 EXCEPT !.last_reseed_time = current_time,
                               !.seed = Xor64(@, new_seed)]
               ELSE g2,
         underflow |-> elapsed.overflow, panicked |-> panic,
         fired |-> fire])))

\* A faulty loop: mix_entropy is skipped, every byte is drawn from g.
ByteLoop_no_mix(g, count) ==
    [g |-> g,
     random_bytes |-> [i \in 1 .. count |-> LowByte(combine_entropy(g))]]

\* The loop of generate_random_bytes run count times from g: the generator
\* after it and the bytes pushed.  Each byte is the low byte of
\* combine_entropy of the state before that round's mix_entropy.
RECURSIVE ByteLoop(_, _)
ByteLoop(g, count) ==
    IF count = 0 THEN [g |-> g, random_bytes |-> <<>>]
    ELSE Bind(ByteLoop(g, count - 1), LAMBDA before :
         Bind(combine_entropy(before.g), LAMBDA entropy :
              [g |-> mix_entropy(before.g, entropy),
               random_bytes |-> Append(before.random_bytes,
                                       LowByte(entropy))]))

\* random_bytes.last().copied().unwrap_or(0).
LastOr0(random_bytes) ==
    IF random_bytes = <<>> THEN 0 ELSE random_bytes[Len(random_bytes)]

\* A faulty generate_random_bytes: the loop is skipped.
no_bytes(g, count) ==
    [g |-> reseed_mix(g, U64(0)), random_bytes |-> <<>>, last_byte |-> U64(0)]

\* A faulty generate_random_bytes: it reseeds with its first byte.
generate_random_bytes_first(g, count) ==
    Bind(ByteLoop(g, count), LAMBDA l :
    Bind(U64(IF l.random_bytes = <<>> THEN 0 ELSE l.random_bytes[1]),
         LAMBDA first_byte :
        [g |-> reseed_mix(l.g, first_byte), random_bytes |-> l.random_bytes,
         last_byte |-> first_byte]))

\* generate_random_bytes up to the reading of the clock in its reseed: the
\* loop, then reseed_mix with the last byte (0 when there is none).  g is
\* the mixed generator, random_bytes what the call returns if its reseed
\* does not panic, last_byte the value it reseeds with.
generate_random_bytes(g, count) ==
    Bind(ByteLoop(g, count), LAMBDA l :
    Bind(U64(LastOr0(l.random_bytes)), LAMBDA last_byte :
        [g |-> reseed_mix(l.g, last_byte), random_bytes |-> l.random_bytes,
         last_byte |-> last_byte]))

\* A faulty packing of 8 bytes: the first byte is the least significant.
PackBytes_low_first(bytes, n) ==
    [k \in 1 .. Limbs64 |-> bytes[2 * k - 1] + ByteBase * bytes[2 * k]]

\* The loop of generate_random_number over the first n bytes:
\* random_number = (random_number << 8) | byte, from 0.
RECURSIVE PackBytes(_, _)
PackBytes(bytes, n) ==
    IF n = 0 THEN U64(0)
    ELSE Bind(PackBytes(bytes, n - 1), LAMBDA random_number :
              ShlOr8(random_number, bytes[n]))

\* generate_random_number up to the reading of the clock in its reseed:
\* generate_random_bytes(8), then the packing of the bytes.
generate_random_number(g) ==
    Bind(generate_random_bytes(g, Bytes64), LAMBDA b :
        [g |-> b.g, random_bytes |-> b.random_bytes,
         last_byte |-> b.last_byte,
         random_number |-> PackBytes(b.random_bytes, Len(b.random_bytes))])

\* min + (random_number % (max - min + 1)) with wrapping operations: max -
\* min, then + 1, then %, then min +, each a u64 operation.  zero: the
\* divisor is 0 (a panic in every build; ret is then meaningless).
\* overflow: one of the three operations overflowed (a panic in a build with
\* overflow checks, a wrapped value otherwise).
BoundedExpr(min, max, random_number) ==
    Bind(Sub64(max, min), LAMBDA width :
    Bind(Add64(width.val, U64(1)), LAMBDA modulus :
    Bind(modulus.val = U64(0), LAMBDA zero :
    Bind(IF zero THEN U64(0) ELSE Rem64(random_number, modulus.val),
         LAMBDA rem :
    Bind(Add64(min, rem), LAMBDA sum :
        [ret |-> sum.val, zero |-> zero,
         overflow |-> width.overflow \/ modulus.overflow \/ sum.overflow])))))

\* The outcome of generate_bounded_number: r the outcome of the reseed in
\* generate_random_number, e the expression.  The expression is evaluated
\* only if the reseed returned.
bounded_outcome(r, e, checked) ==
    [r EXCEPT !.panicked = @ \/ e.zero \/ (e.overflow /\ checked)]

\* ------------------------------------------------------------- the shuffle

\* usize is 32 or 64 bits wide, as the target has it.
UsizeBits == {32, 64}

\* as_nanos() of the clock, a u128 in eight limbs: a reading that is -1
\* modulo every i + 1 the loop can use, the reading one nanosecond later (0
\* modulo each of them), a reading 123456789 ns after 1.7e18, and a reading
\* beyond 64 bits.
Nanos ==
    { <<159, 13866, 40190, 6039, 0, 0, 0, 0>>,
      <<160, 13866, 40190, 6039, 0, 0, 0, 0>>,
      <<52501, 15749, 40190, 6039, 0, 0, 0, 0>>,
      <<5, 0, 1, 0, 1, 0, 0, 0>> }

\* shuffle(items): 1, 2, .., n for every length n up to MaxLen (the tests'
\* vec![1, 2, 3, 4, 5] is one), and sequences with repeated elements.
ShuffleInputs ==
    {[k \in 1 .. n |-> k] : n \in 0 .. MaxLen}
        \cup {[k \in 1 .. n |-> 1 + (k % 2)] : n \in 2 .. MaxLen}

\* nanos as usize: the low limbs of the u128 that fit the target's usize.
as_usize(nanos, bits) == SubSeq(nanos, 1, bits \div 16)

\* x % m for a usize x, limbs k and above, and 0 < m < 2^15: the limbs are
\* taken in from the most significant one.
RECURSIVE RemSmall(_, _, _)
RemSmall(x, k, m) ==
    IF k > Len(x) THEN 0
    ELSE Bind(RemSmall(x, k + 1, m), LAMBDA r : (r * LimbBase + x[k]) % m)

\* (as_nanos() as usize) % (i + 1).
shuffle_index(nanos, bits, i) == RemSmall(as_usize(nanos, bits), 1, i + 1)

\* A faulty swap: items[i] = items[j], items[j] kept.
overwrite(s, i, j) == [s EXCEPT ![i + 1] = s[j + 1]]

\* A faulty swap: items[i] is swapped with the element after items[j]
\* (items[0] after items[i]).
swap_next(s, i, j) ==
    [s EXCEPT ![i + 1] = s[((j + 1) % (i + 1)) + 1],
              ![((j + 1) % (i + 1)) + 1] = s[i + 1]]

\* A faulty swap: items[j] is swapped with the last element.
swap_last(s, i, j) == [s EXCEPT ![Len(s)] = s[j + 1], ![j + 1] = s[Len(s)]]

\* items.swap(i, j), i and j counted from 0 as in the source.
swap(s, i, j) == [s EXCEPT ![i + 1] = s[j + 1], ![j + 1] = s[i + 1]]

\* ---------------------------------------------------------------- the state

VARIABLES
    seed,              \* Yarrow.seed
    pool,              \* Yarrow.pool
    last_reseed_time,  \* Yarrow.last_reseed_time
    build,             \* the build's overflow checks, once an overflow shows them
    panicked,          \* a call has panicked: the thread has unwound
    calls,             \* the number of calls made on the generator
    call,              \* the last call: its arguments, clock reading, result
    prev_call,         \* the call before it
    mutated_at,        \* the clock readings at which seed changed, in order
    entry,             \* the generator as the last call was entered
    readings,          \* the clock readings made by the calls, in order
    items,             \* shuffle: the slice
    original,          \* shuffle: the slice as it was passed
    loop_i,            \* shuffle: the loop's i, counted from 0
    sh_pc,             \* shuffle: "idle", "loop" (before a round) or "done"
    usize_bits,        \* shuffle: the width of usize on the target, 0 before a call
    draws              \* shuffle: the <<i, j>> of the rounds run, in order

gen_vars ==
    <<seed, pool, last_reseed_time, build, panicked, calls, call, prev_call,
      mutated_at, entry, readings>>

sh_vars == <<items, original, loop_i, sh_pc, usize_bits, draws>>

vars == <<gen_vars, sh_vars>>

\* The generator held by the state.
Self == Yarrow(seed, pool, last_reseed_time)

\* The build either panics on arithmetic overflow ("checked": a debug build)
\* or wraps ("wrapping": a release build).  It is fixed for a behaviour and
\* shows at the first overflow: until then it is "any".
Builds(b) == IF b = "any" THEN {"checked", "wrapping"} ELSE {b}

\* The record of a call: what was called with which arguments, the clock
\* reading (timed: the clock was read), what it returned (returned: it did),
\* and what happened in it.
NoCall ==
    [op |-> "new", v |-> U64(0), count |-> 0, min |-> U64(0), max |-> U64(0),
     timed |-> FALSE, now |-> U64(0), returned |-> TRUE, ret |-> U64(0),
     random_bytes |-> <<>>, new_seed |-> U64(0), fired |-> FALSE,
     underflow |-> FALSE, overflow |-> FALSE]

\* The state after a call whose outcome is r (r.g the generator after it) in
\* build b, recorded as c.
Commit(r, b, c) ==
    /\ seed' = r.g.seed
    /\ pool' = r.g.pool
    /\ last_reseed_time' = r.g.last_reseed_time
    /\ panicked' = r.panicked
    /\ build' = IF r.underflow \/ c.overflow THEN b ELSE build
    /\ call' = [c EXCEPT !.returned = ~r.panicked, !.fired = r.fired,
                         !.underflow = r.underflow]
    /\ mutated_at' = IF r.g.seed # seed THEN Append(mutated_at, c.now)
                     ELSE mutated_at
    /\ entry' = Self
    /\ readings' = IF c.timed THEN Append(readings, c.now) ELSE readings
    /\ prev_call' = call
    /\ calls' = calls + 1
    /\ UNCHANGED sh_vars

\* A call can be made: the thread is alive and the model's budget allows it.
CanCall == ~panicked /\ calls < MaxCalls

\* The outcome of a call that reads no clock.
Untimed(g) == [g |-> g, panicked |-> FALSE, fired |-> FALSE, underflow |-> FALSE]

\* The call c, reseeding with new_seed, reads the clock.
Timed(c, new_seed, t) == [c EXCEPT !.timed = TRUE, !.now = t, !.new_seed = new_seed]

Init ==
    /\ \E s \in Seeds : /\ seed = new(s).seed
                       /\ pool = new(s).pool
                       /\ last_reseed_time = new(s).last_reseed_time
    /\ build = "any"
    /\ panicked = FALSE
    /\ calls = 0
    /\ call = NoCall
    /\ prev_call = NoCall
    /\ mutated_at = <<>>
    /\ entry = Self
    /\ readings = <<>>
    /\ items = <<>>
    /\ original = <<>>
    /\ loop_i = 0
    /\ sh_pc = "idle"
    /\ usize_bits = 0
    /\ draws = <<>>

AddEntropy(v) ==
    /\ CanCall
    /\ Len(pool) < MaxPoolDigests * DigestLen
    /\ \E r \in {Untimed(add_entropy(Self, v))} :
           Commit(r, build, [NoCall EXCEPT !.op = "add_entropy", !.v = v])

\* A faulty combine_entropy: the number of calls made so far in the process
\* is XORed into the value.
CombineEntropy_counted ==
    /\ CanCall
    /\ \E e \in {Xor64(combine_entropy(Self), U64(calls + 1))} :
           Commit(Untimed(Self), build,
                  [NoCall EXCEPT !.op = "combine_entropy", !.ret = e])

CombineEntropy ==
    /\ CanCall
    /\ \E e \in {combine_entropy(Self)} :
           Commit(Untimed(Self), build,
                  [NoCall EXCEPT !.op = "combine_entropy", !.ret = e])

MixEntropy(e) ==
    /\ CanCall
    /\ \E r \in {Untimed(mix_entropy(Self, e))} :
           Commit(r, build, [NoCall EXCEPT !.op = "mix_entropy", !.v = e])

\* reseed(v): the pool is mixed, then the clock is read.
Reseed(v) ==
    /\ CanCall
    /\ \E g2 \in {reseed_mix(Self, v)} :
       \E t \in ClockSecs :
       \E b \in Builds(build) :
       \E r \in {reseed_gate(g2, v, t, b = "checked")} :
           Commit(r, b, Timed([NoCall EXCEPT !.op = "reseed", !.v = v], v, t))

\* generate_random_bytes(count): the clock is read in the trailing reseed.
GenerateRandomBytes(count) ==
    /\ CanCall
    /\ \E m \in {generate_random_bytes(Self, count)} :
       \E t \in ClockSecs :
       \E b \in Builds(build) :
       \E r \in {reseed_gate(m.g, m.last_byte, t, b = "checked")} :
           Commit(r, b,
                  Timed([NoCall EXCEPT !.op = "generate_random_bytes",
                                       !.count = count,
                                       !.random_bytes = m.random_bytes],
                        m.last_byte, t))

\* generate_random_number().
GenerateRandomNumber ==
    /\ CanCall
    /\ \E n \in {generate_random_number(Self)} :
       \E t \in ClockSecs :
       \E b \in Builds(build) :
       \E r \in {reseed_gate(n.g, n.last_byte, t, b = "checked")} :
           Commit(r, b,
                  Timed([NoCall EXCEPT !.op = "generate_random_number",
                                       !.count = Bytes64,
                                       !.random_bytes = n.random_bytes,
                                       !.ret = n.random_number],
                        n.last_byte, t))

\* generate_bounded_number(min, max): the expression is evaluated after
\* generate_random_number has returned.
GenerateBoundedNumber ==
    /\ CanCall
    /\ \E n \in {generate_random_number(Self)} :
       \E range \in Ranges :
       \E e \in {BoundedExpr(range[1], range[2], n.random_number)} :
       \E t \in ClockSecs :
       \E b \in Builds(build) :
       \E r \in {reseed_gate(n.g, n.last_byte, t, b = "checked")} :
           Commit(bounded_outcome(r, e, b = "checked"), b,
                  Timed([NoCall EXCEPT !.op = "generate_bounded_number",
                                       !.min = range[1], !.max = range[2],
                                       !.count = Bytes64,
                                       !.random_bytes = n.random_bytes,
                                       !.v = n.random_number,
                                       !.ret = e.ret,
                                       !.overflow = ~r.panicked /\ e.overflow],
                        n.last_byte, t))

Next ==
    \/ \E v \in Values : AddEntropy(v)
    \/ CombineEntropy
    \/ \E e \in MixValues : MixEntropy(e)
    \/ \E v \in Values : Reseed(v)
    \/ \E count \in 0 .. MaxCount : GenerateRandomBytes(count)
    \/ GenerateRandomNumber
    \/ GenerateBoundedNumber

Spec == Init /\ [][Next]_vars

\* shuffle(xs) is entered: len and the loop's range (1..len).rev().
ShuffleCall(xs) ==
    /\ sh_pc = "idle"
    /\ items' = xs
    /\ original' = xs
    /\ loop_i' = IF Len(xs) > 1 THEN Len(xs) - 1 ELSE 0
    /\ sh_pc' = IF Len(xs) > 1 THEN "loop" ELSE "done"
    /\ draws' = <<>>
    /\ usize_bits' \in UsizeBits
    /\ UNCHANGED gen_vars

\* One round of the loop, the clock reading nanos.
ShuffleStep(nanos) ==
    /\ sh_pc = "loop"
    /\ \E j \in {shuffle_index(nanos, usize_bits, loop_i)} :
           /\ items' = swap(items, loop_i, j)
           /\ draws' = Append(draws, <<loop_i, j>>)
    /\ loop_i' = loop_i - 1
    /\ sh_pc' = IF loop_i = 1 THEN "done" ELSE "loop"
    /\ UNCHANGED <<original, usize_bits, gen_vars>>

NextShuffle ==
    \/ \E xs \in ShuffleInputs : ShuffleCall(xs)
    \/ \E nanos \in Nanos : ShuffleStep(nanos)

SpecShuffle == Init /\ [][NextShuffle]_vars

\* The calls of Next under a clock that does not go back: a call that reads
\* the clock reads no less than the reading before it.
NextMonotonic ==
    /\ Next
    /\ call'.timed /\ readings # <<>> =>
           Le64(readings[Len(readings)], call'.now)

SpecMonotonic == Init /\ [][NextMonotonic]_vars

\* The generators a call is made on in SpecCall: a new one, one that has
\* reseeded once (its gate fired at the readings above 60, not at 60), and
\* either of them after one add_entropy.
Reseeded ==
    {reseed_gate(reseed_mix(new(s), v), v, t, FALSE).g :
         s \in Seeds, v \in Values, t \in ClockSecs}

Entered ==
    LET before == {new(s) : s \in Seeds} \cup Reseeded
    IN  before \cup {add_entropy(g, v) : g \in before, v \in Values}

\* One of the generators of Entered, about to be called; the histories
\* (mutated_at, readings) start with the call.
InitCall ==
    /\ \E g \in Entered : /\ seed = g.seed
                         /\ pool = g.pool
                         /\ last_reseed_time = g.last_reseed_time
    /\ build = "any"
    /\ panicked = FALSE
    /\ calls = 0
    /\ call = NoCall
    /\ prev_call = NoCall
    /\ mutated_at = <<>>
    /\ entry = Self
    /\ readings = <<>>
    /\ items = <<>>
    /\ original = <<>>
    /\ loop_i = 0
    /\ sh_pc = "idle"
    /\ usize_bits = 0
    /\ draws = <<>>

\* One call of any method on the generator.
NextCall == calls = 0 /\ Next

SpecCall == InitCall /\ [][NextCall]_vars

\* ------------------------------------------------------------- properties

\* The last call panicked in its reseed: the subtraction underflowed in a
\* build with overflow checks.
ReseedPanicked == call.underflow /\ build = "checked"

\* min <= max and max - min + 1 <= 2^64 - 1.
InContract(min, max) == Le64(min, max) /\ Sub64(max, min).val # U64Max

\* C1.  Range containment: a generate_bounded_number(min, max) call with
\* min <= max and max - min + 1 <= 2^64 - 1, made in any reachable state with
\* any clock reading, whose generate_random_number returned (its reseed did
\* not panic), returns r with min <= r <= max, and no operation of
\* min + (n % (max - min + 1)) overflows 64 bits.
C1_RangeContainment ==
    (/\ call.op = "generate_bounded_number"
     /\ InContract(call.min, call.max)
     /\ ~ReseedPanicked)
        => (/\ call.returned
            /\ ~call.overflow
            /\ Le64(call.min, call.ret)
            /\ Le64(call.ret, call.max))

\* C1 is exercised: a call on the range that ends at u64::MAX has returned,
\* on a generator that an earlier call had already changed.
C1_Witness ==
    /\ call.op = "generate_bounded_number"
    /\ InContract(call.min, call.max)
    /\ call.max = U64Max
    /\ call.returned
    /\ calls = 2

\* The number of occurrences of x in the sequence s.
Count(s, x) == Cardinality({k \in DOMAIN s : s[k] = x})

\* The elements of the sequence s.
Elements(s) == {s[k] : k \in DOMAIN s}

\* C2.  Shuffle is a permutation: for every input sequence (of any length,
\* 0 and 1 included, with or without repeated elements) and every sequence
\* of clock readings, after every round of shuffle and when it returns the
\* slice has the length it had and holds every element as many times as it
\* did.
C2_ShufflePermutation ==
    sh_pc # "idle" =>
        /\ Len(items) = Len(original)
        /\ \A x \in Elements(items) \cup Elements(original) :
               Count(items, x) = Count(original, x)

\* C2 is exercised: shuffle has returned a five-element slice with repeated
\* elements in another order.
C2_Witness ==
    /\ sh_pc = "done"
    /\ Len(original) = 5
    /\ Cardinality(Elements(original)) < 5
    /\ items # original

\* t - l > 60 in the integers: t is more than ReseedGate seconds after l.
Elapsed(t, l) == Le64(l, t) /\ Lt64(U64(ReseedGate), Sub64(t, l).val)

\* C3.  Seed gating: a reseed(v) call that reads the clock value t changes
\* seed and last_reseed_time only if t - last_reseed_time > 60, and then seed
\* becomes seed XOR v and last_reseed_time becomes t; if t - last_reseed_time
\* <= 60 (exactly 60 included) both are left unchanged.
C3_SeedGating ==
    [][call'.op = "reseed" =>
         IF Elapsed(call'.now, last_reseed_time)
         THEN seed' = Xor64(seed, call'.v) /\ last_reseed_time' = call'.now
         ELSE seed' = seed /\ last_reseed_time' = last_reseed_time]_vars

\* C4.  Reseed changes the pool unconditionally: in every state, for every
\* value v and every clock reading, the gate fired or not (and the call
\* returned or not), the pool after reseed(v) differs from the pool before.
C4_ReseedChangesPool ==
    [][call'.op = "reseed" => pool' # pool]_vars

\* C4 is exercised: reseed has been called on a pool of one digest (left by
\* an earlier reseed), the gate did not fire, and the call returned.
C4_Witness ==
    /\ calls = 2
    /\ call.op = "reseed"
    /\ prev_call.op = "reseed"
    /\ ~call.fired
    /\ call.returned
    /\ Len(pool) = DigestLen

\* Byte k (1 the most significant) of the big-endian encoding of a u64.
BigEndianByte(x, k) ==
    LET limb == x[((Bytes64 - k) \div 2) + 1]
    IN  IF (Bytes64 - k) % 2 = 1 THEN limb \div ByteBase ELSE limb % ByteBase

\* C5.  add_entropy strictly advances the pool: in every state and for every
\* v, after add_entropy(v) the pool is the old pool followed by the digest of
\* the 8 big-endian bytes of v: the old pool is an unchanged prefix, the
\* length has grown by one digest width (64), and the pool differs from the
\* pool before.
C5_AddEntropyAppends ==
    [][call'.op = "add_entropy" =>
         /\ pool' = pool \o Sha3_512([k \in 1 .. Bytes64 |->
                                          BigEndianByte(call'.v, k)])
         /\ SubSeq(pool', 1, Len(pool)) = pool
         /\ Len(pool') = Len(pool) + 64
         /\ pool' # pool]_vars

\* C5 is exercised: add_entropy of the tests' value has been called on a
\* pool that already held a digest.
C5_Witness ==
    /\ call.op = "add_entropy"
    /\ call.v = U64(67890)
    /\ prev_call.op = "add_entropy"
    /\ Len(pool) = 2 * DigestLen

\* The calls that reseed: they read the clock and run the gate.
Reseeding ==
    {"reseed", "generate_random_bytes", "generate_random_number",
     "generate_bounded_number"}

\* C6 as stated.  Non-repetition: on one generator instance, two successive
\* calls generate_random_bytes(n) with n >= 1 return different byte
\* sequences.
C6_NonRepetition ==
    (/\ prev_call.op = "generate_random_bytes"
     /\ call.op = "generate_random_bytes"
     /\ call.count = prev_call.count
     /\ call.count >= 1
     /\ prev_call.returned
     /\ call.returned)
        => call.random_bytes # prev_call.random_bytes

\* C6, amended.  Every call generate_random_bytes(n) with n >= 1 yields n
\* bytes and leaves a pool that differs from the pool it was called on: of
\* two successive calls, the second computes its n bytes from another pool
\* than the first.  The two sequences need not differ.
C6_SuccessiveCallsOnDifferentPools ==
    [][(call'.op = "generate_random_bytes" /\ call'.count >= 1) =>
         /\ Len(call'.random_bytes) = call'.count
         /\ pool' # pool]_vars

\* C6 is exercised: two successive generate_random_bytes(1) calls have
\* returned, the second the same byte as the first.
C6_Witness ==
    /\ calls = 2
    /\ prev_call.op = "generate_random_bytes"
    /\ call.op = "generate_random_bytes"
    /\ prev_call.count = 1
    /\ call.count = 1
    /\ call.returned
    /\ call.random_bytes = prev_call.random_bytes

\* The elements of the sequence s are pairwise distinct.
Distinct(s) == \A k1, k2 \in DOMAIN s : s[k1] = s[k2] => k1 = k2

\* Every round run so far drew j = i.
IdentityDraws == \A k \in DOMAIN draws : draws[k][1] = draws[k][2]

C8_BoundedPool ==
    [][/\ call'.op \in Reseeding \cup {"mix_entropy"} => Len(pool') = 64
       /\ (pool' # pool /\ Len(pool') # 64) => call'.op = "add_entropy"]_vars

\* C8 is exercised: mix_entropy has been called on the pool left by an
\* add_entropy call and has left one digest.
C8_Witness ==
    /\ calls = 2
    /\ prev_call.op = "add_entropy"
    /\ call.op = "mix_entropy"
    /\ Len(pool) = DigestLen

\* C9.  Seed is touched by the reseed policy only: add_entropy, mix_entropy
\* and combine_entropy leave seed and last_reseed_time unchanged in every
\* state, combine_entropy leaves the pool unchanged too, and a step in which
\* seed or last_reseed_time changes is the gated branch of a reseed (called
\* directly or by generate_*).
C9_SeedTouchedByReseedOnly ==
    [][/\ call'.op \in {"add_entropy", "mix_entropy", "combine_entropy"} =>
            seed' = seed /\ last_reseed_time' = last_reseed_time
       /\ call'.op = "combine_entropy" => pool' = pool
       /\ (seed' # seed \/ last_reseed_time' # last_reseed_time) =>
            call'.op \in Reseeding /\ call'.fired]_vars

\* C9 is exercised: add_entropy of a nonzero value has been called after a
\* reseed had changed the seed.
C9_Witness ==
    /\ calls = 2
    /\ call.op = "add_entropy"
    /\ call.v # U64(0)
    /\ prev_call.fired
    /\ Len(mutated_at) = 1

\* C10.  Seed is perturbed at most once per minute: in every execution, with
\* any sequence of clock readings, the clock readings of any two consecutive
\* changes of seed differ by more than 60 seconds.
C10_OncePerMinute ==
    \A k \in 1 .. (Len(mutated_at) - 1) :
        Elapsed(mutated_at[k + 1], mutated_at[k])

\* The last call is the first reseed of the instance: a reseed call that
\* made the first clock reading (generate_* calls reseed too), so that
\* last_reseed_time was 0 when it was entered.
FirstReseed == call.op = "reseed" /\ Len(readings) = 1

\* C11 as stated.  First reseed always perturbs the seed: on a freshly
\* constructed generator (last_reseed_time = 0) the first reseed(v) whose
\* clock reading t exceeds 60 leaves seed different from the initial seed
\* (seed = initial seed XOR v) and sets last_reseed_time = t; with t <= 60
\* neither changes.
C11_FirstReseedPerturbs ==
    FirstReseed =>
        IF Lt64(U64(60), call.now)
        THEN /\ seed # entry.seed
             /\ seed = Xor64(entry.seed, call.v)
             /\ last_reseed_time = call.now
        ELSE /\ seed = entry.seed
             /\ last_reseed_time = entry.last_reseed_time

\* C11, amended.  On a generator that has not reseeded yet (last_reseed_time
\* = 0) the first reseed(v) whose clock reading t exceeds 60 sets seed to
\* the initial seed XOR v and last_reseed_time to t; seed then differs from
\* the initial seed exactly when v # 0.  With t <= 60 neither changes.
C11_FirstReseedXorsSeed ==
    FirstReseed =>
        /\ entry.last_reseed_time = U64(0)
        /\ IF Lt64(U64(60), call.now)
           THEN /\ seed = Xor64(entry.seed, call.v)
                /\ last_reseed_time = call.now
                /\ seed # entry.seed <=> call.v # U64(0)
           ELSE /\ seed = entry.seed
                /\ last_reseed_time = U64(0)

\* C11 is exercised: the first reseed, reseed(0) at the reading 61, has set
\* last_reseed_time and left seed as it was.
C11_Witness ==
    /\ FirstReseed
    /\ call.v = U64(0)
    /\ call.now = U64(61)
    /\ last_reseed_time = U64(61)
    /\ seed = entry.seed

\* The last call ran the loop of generate_random_bytes: generate_random_bytes
\* itself with call.count rounds, or generate_random_number (alone or in
\* generate_bounded_number), which calls generate_random_bytes(8).
RanByteLoop ==
    call.op \in {"generate_random_bytes", "generate_random_number",
                 "generate_bounded_number"}

\* A generator with its combine_entropy.
Combined(g) == Bind(combine_entropy(g), LAMBDA e : [g |-> g, entropy |-> e])

\* The generators met by count rounds of mixing from g, each with its
\* combine_entropy: the first is g, each next one the one before mixed with
\* its own combine_entropy.
RECURSIVE MixChain(_, _)
MixChain(g, count) ==
    IF count = 0 THEN <<Combined(g)>>
    ELSE Bind(MixChain(g, count - 1), LAMBDA chain :
         Bind(chain[count], LAMBDA before :
              Append(chain,
                     Combined(mix_entropy(before.g, before.entropy)))))

\* The low 8 bits of a 64-bit value.
Low8(x) == x[1] % 256

\* C12.  generate_random_bytes(count) returns exactly count bytes; its i-th
\* byte is the low 8 bits of combine_entropy() of the state before the i-th
\* mix_entropy of the loop, and the loop mixes exactly once per byte: the
\* pool the call leaves is the trailing reseed's mix of the count-th mixed
\* state.
C12_ByteDerivation ==
    RanByteLoop =>
        Bind(MixChain(entry, call.count), LAMBDA chain :
            /\ Len(call.random_bytes) = call.count
            /\ \A i \in 1 .. call.count :
                   call.random_bytes[i] = Low8(chain[i].entropy)
            /\ pool = reseed_mix(chain[call.count + 1].g,
                                 U64(LastOr0(call.random_bytes))).pool)

\* C12 is exercised: generate_random_bytes(MaxCount), called on a pool that
\* is not empty, has returned MaxCount >= 2 bytes of which the second is not
\* the first.
C12_Witness ==
    /\ call.op = "generate_random_bytes"
    /\ call.count = MaxCount
    /\ call.returned
    /\ entry.pool # <<>>
    /\ Len(call.random_bytes) >= 2
    /\ call.random_bytes[1] # call.random_bytes[2]

\* The last byte of bytes widened to 64 bits, 0 when there is none.
WidenedLast(bytes) ==
    IF Len(bytes) = 0 THEN <<0, 0, 0, 0>> ELSE <<bytes[Len(bytes)], 0, 0, 0>>

\* The generator, and the outcome of the call, are those of one reseed(v)
\* that read the clock as the last call did, made on the generator g.
OneReseed(g, v) ==
    Bind(reseed_gate(reseed_mix(g, v), v, call.now, build = "checked"),
         LAMBDA r : /\ Self = r.g
                    /\ panicked = r.panicked
                    /\ call.fired = r.fired)

\* The trailing reseed of the last call, a call of generate_random_bytes:
\* one reseed with the last byte, or 0, made on the generator the loop left.
TrailingReseed ==
    /\ call.new_seed = WidenedLast(call.random_bytes)
    /\ OneReseed(MixChain(entry, call.count)[call.count + 1].g,
                 WidenedLast(call.random_bytes))

\* C13 as stated.  Trailing reseed: every generate_random_bytes(count) call
\* performs exactly one reseed after the last byte is produced and before
\* returning, with new_seed the last emitted byte widened to 64 bits, or 0
\* when count = 0; generate_random_bytes(0) returns the empty sequence yet
\* changes the pool, and changes seed and last_reseed_time when the gate
\* fires.
C13_TrailingReseed ==
    call.op = "generate_random_bytes" =>
        /\ TrailingReseed
        /\ call.count = 0 =>
               /\ call.random_bytes = <<>>
               /\ pool # entry.pool
               /\ call.fired => /\ seed # entry.seed
                                /\ last_reseed_time # entry.last_reseed_time

\* C13, amended.  Every generate_random_bytes(count) call performs exactly
\* one reseed after the last byte is produced, with new_seed the last
\* emitted byte widened to 64 bits, or 0 when count = 0;
\* generate_random_bytes(0) produces the empty sequence yet changes the
\* pool, and when the gate fires it changes last_reseed_time to the reading
\* while seed, XORed with 0, keeps its value.
C13_TrailingReseedOfZeroKeepsSeed ==
    call.op = "generate_random_bytes" =>
        /\ TrailingReseed
        /\ call.count = 0 =>
               /\ call.random_bytes = <<>>
               /\ pool # entry.pool
               /\ seed = entry.seed
               /\ IF call.fired
                  THEN /\ last_reseed_time = call.now
                       /\ last_reseed_time # entry.last_reseed_time
                  ELSE last_reseed_time = entry.last_reseed_time

\* C13 is exercised: generate_random_bytes(0) has returned no byte, its gate
\* fired and set last_reseed_time, the pool changed.
C13_Witness ==
    /\ call.op = "generate_random_bytes"
    /\ call.count = 0
    /\ call.returned
    /\ call.random_bytes = <<>>
    /\ call.fired
    /\ last_reseed_time = call.now
    /\ pool # entry.pool

\* The 64-bit value whose big-endian bytes are the 8 bytes given, the first
\* the most significant.
FromBeBytes(bytes) ==
    <<bytes[7] * 256 + bytes[8], bytes[5] * 256 + bytes[6],
      bytes[3] * 256 + bytes[4], bytes[1] * 256 + bytes[2]>>

\* C14.  Byte packing: from the same prior state (seed, pool,
\* last_reseed_time) and the same clock reading, generate_random_number
\* returns the big-endian packing (first byte most significant) of the 8
\* bytes that generate_random_bytes(8) returns, and both calls leave the
\* generator in the same final state (and panic or return alike).
C14_BytePacking ==
    call.op = "generate_random_number" =>
        Bind(generate_random_bytes(entry, 8), LAMBDA b :
        Bind(reseed_gate(b.g, b.last_byte, call.now, build = "checked"),
             LAMBDA r :
            /\ Len(b.random_bytes) = 8
            /\ call.ret = FromBeBytes(b.random_bytes)
            /\ Self = r.g
            /\ panicked = r.panicked
            /\ call.returned = ~r.panicked))

\* C14 is exercised: generate_random_number has returned a number whose
\* bytes read differently from the other end, its gate fired, on a
\* generator that had reseeded before.
C14_Witness ==
    /\ call.op = "generate_random_number"
    /\ call.returned
    /\ call.fired
    /\ entry.last_reseed_time # U64(0)
    /\ call.ret # FromBeBytes([k \in 1 .. 8 |-> call.random_bytes[9 - k]])

\* C15.  Reseed step order: in reseed(v) the pool is first extended by
\* add_entropy(v), then combine_entropy is evaluated on the extended pool
\* with seed and last_reseed_time as they were on entry, then mix_entropy
\* folds that scalar in, and only then is the clock read and the gate
\* applied: the pool after reseed(v) is that function of the entry state and
\* v whether or not the gate fires, whatever the clock reading, and also
\* when the gate panics.
C15_ReseedStepOrder ==
    call.op = "reseed" =>
        Bind(add_entropy(entry, call.v), LAMBDA extended :
        Bind(combine_entropy(extended), LAMBDA scalar :
            /\ extended.seed = entry.seed
            /\ extended.last_reseed_time = entry.last_reseed_time
            /\ Len(extended.pool) = Len(entry.pool) + 64
            /\ SubSeq(extended.pool, 1, Len(entry.pool)) = entry.pool
            /\ pool = Sha3_512(extended.pool \o to_be_bytes(scalar))))

\* C15 is exercised: a reseed(v), v # 0, whose gate fired on a generator
\* that had reseeded before, so that seed and last_reseed_time after the
\* call are not those the scalar was computed from.
C15_Witness ==
    /\ call.op = "reseed"
    /\ call.v # U64(0)
    /\ call.fired
    /\ entry.last_reseed_time # U64(0)
    /\ seed # entry.seed
    /\ last_reseed_time # entry.last_reseed_time
    /\ pool # entry.pool

\* A u64 as its 8 digits in base 256, the least significant first, and back.
Digits(x) ==
    [k \in 1 .. 8 |-> IF k % 2 = 1 THEN x[(k + 1) \div 2] % 256
                      ELSE x[k \div 2] \div 256]

OfDigits(d) == [i \in 1 .. 4 |-> d[2 * i - 1] + 256 * d[2 * i]]

\* (c * 33 + byte) mod 2^64 on base-256 digits: digit k of the result and
\* the carry into digit k + 1, the carry out of digit 8 being dropped.
RECURSIVE Times33Plus(_, _, _)
Times33Plus(c, k, carry) ==
    IF k > 8 THEN <<>>
    ELSE <<(c[k] * 33 + carry) % 256>>
             \o Times33Plus(c, k + 1, (c[k] * 33 + carry) \div 256)

\* The fold c := (c * 33 + byte) mod 2^64 over the bytes p[lo..hi], in
\* insertion order, from the digits c: the bytes before the middle one, the
\* middle one, the bytes after it.
RECURSIVE Hash33(_, _, _, _)
Hash33(p, lo, hi, c) ==
    IF lo > hi THEN c
    ELSE Bind((lo + hi) \div 2, LAMBDA mid :
         Bind(Hash33(p, lo, mid - 1, c), LAMBDA before :
         Bind(Times33Plus(before, 1, p[mid]), LAMBDA at :
              Hash33(p, mid + 1, hi, at))))

\* The fold passes 2^64 at its first byte: seed * 33 + byte >= 2^64.
FoldWraps(g) ==
    /\ g.pool # <<>>
    /\ MulAdd64_saturating(g.seed, g.pool[1]) = U64Max

\* a XOR b, bit by bit, on naturals below 2^16.
XorBits(a, b) ==
    LET Pow2[k \in 0 .. 15] == IF k = 0 THEN 1 ELSE 2 * Pow2[k - 1]
        Sum[k \in 0 .. 16] ==
            IF k = 0 THEN 0
            ELSE Sum[k - 1]
                   + Pow2[k - 1] * ((((a \div Pow2[k - 1]) % 2)
                                     + ((b \div Pow2[k - 1]) % 2)) % 2)
    IN  Sum[16]

\* C16.  combine_entropy is total and wrapping: for every seed, pool (empty
\* included) and last_reseed_time it returns ((the fold c := c * 33 + byte
\* over the pool in insertion order, from seed) mod 2^64) XOR
\* last_reseed_time, also when the fold passes 2^64; it changes nothing; on
\* an empty pool it returns seed XOR last_reseed_time.
C16_CombineEntropyWraps ==
    call.op = "combine_entropy" =>
        /\ call.returned /\ ~panicked
        /\ Self = entry
        /\ Bind(OfDigits(Hash33(pool, 1, Len(pool), Digits(seed))), LAMBDA c :
               call.ret = [i \in 1 .. 4 |-> XorBits(c[i], last_reseed_time[i])])
        /\ pool = <<>> =>
               call.ret = [i \in 1 .. 4 |-> XorBits(seed[i], last_reseed_time[i])]

\* C16 is exercised: combine_entropy has returned on a pool of 128 bytes
\* whose fold passes 2^64 at the first byte, with last_reseed_time not 0.
C16_Witness ==
    /\ call.op = "combine_entropy"
    /\ call.returned
    /\ Len(pool) = 128
    /\ FoldWraps(Self)
    /\ last_reseed_time # U64(0)

\* The slice after the first k rounds of the loop: the elements at the two
\* positions of each round's draw exchanged, in the order of the rounds.
RECURSIVE AfterRounds(_)
AfterRounds(k) ==
    IF k = 0 THEN original
    ELSE LET before == AfterRounds(k - 1)
             i == draws[k][1]
             j == draws[k][2]
         IN  [p \in 1 .. Len(before) |->
                 IF p = i + 1 THEN before[j + 1]
                 ELSE IF p = j + 1 THEN before[i + 1]
                 ELSE before[p]]

\* C17.  Shuffle index safety: shuffle visits i = len - 1 down to 1 exactly
\* once each (len - 1 swaps, none for len 0 or 1); for every clock reading
\* the drawn index j satisfies 0 <= j <= i, so every swap is in bounds; and
\* the positions greater than i are never modified once round i is done.
C17_ShuffleIndexSafety ==
    LET len == Len(original) IN
    /\ Len(items) = len
    /\ Len(draws) <= (IF len = 0 THEN 0 ELSE len - 1)
    /\ sh_pc = "done" => Len(draws) = (IF len = 0 THEN 0 ELSE len - 1)
    /\ sh_pc = "loop" => loop_i = len - 1 - Len(draws) /\ loop_i >= 1
    /\ \A k \in 1 .. Len(draws) :
           /\ draws[k][1] = len - k
           /\ 0 <= draws[k][2] /\ draws[k][2] <= draws[k][1]
           /\ draws[k][1] + 1 \in DOMAIN items
           /\ draws[k][2] + 1 \in DOMAIN items
           /\ \A p \in (draws[k][1] + 1) .. (len - 1) :
                  items[p + 1] = AfterRounds(k)[p + 1]
    /\ items = AfterRounds(Len(draws))

\* C17 is exercised: a shuffle of MaxLen elements has finished after MaxLen
\* - 1 rounds in which both ends of the range were drawn, j = i in one round
\* and j = 0 in another, and the slice is not in its original order.
C17_Witness ==
    /\ sh_pc = "done"
    /\ Len(original) = MaxLen
    /\ Len(draws) = MaxLen - 1
    /\ \E k \in 1 .. Len(draws) : draws[k][2] = draws[k][1]
    /\ \E k \in 1 .. Len(draws) : draws[k][2] = 0
    /\ items # original

\* C18.  Under clock readings that never decrease, in every reachable state
\* last_reseed_time is 0 or a clock value read before, not greater than the
\* latest reading; the subtraction current_time - last_reseed_time in reseed
\* has not underflowed; and last_reseed_time is not below what it was when
\* the last call was entered.
C18_MonotonicClock ==
    /\ \/ last_reseed_time = U64(0)
       \/ \E k \in 1 .. Len(readings) : readings[k] = last_reseed_time
    /\ readings # <<>> => Le64(last_reseed_time, readings[Len(readings)])
    /\ ~call.underflow
    /\ call.op \in {"reseed", "generate_random_bytes",
                    "generate_random_number"} => call.returned
    /\ Le64(entry.last_reseed_time, last_reseed_time)

\* C18 is exercised: two calls have read the clock, 61 then 122, the gate
\* fired in both and last_reseed_time went from 61 to 122.
C18_Witness ==
    /\ readings = <<U64(61), U64(122)>>
    /\ prev_call.fired
    /\ call.fired
    /\ entry.last_reseed_time = U64(61)
    /\ last_reseed_time = U64(122)

\* The upper 56 bits of a u64.
Upper56(x) == <<x[1] \div 256, x[2], x[3], x[4]>>

\* The calls that generate.
Generating ==
    {"generate_random_bytes", "generate_random_number",
     "generate_bounded_number"}

\* C19.  Across any sequence of generate_random_bytes, generate_random_number
\* and generate_bounded_number calls, with any clock readings, the upper 56
\* bits of seed never change: each such call leaves them as they were when
\* it was entered, its trailing reseed XORing seed with a value in 0..255
\* only.
C19_Upper56BitsOfSeed ==
    call.op \in Generating =>
        /\ Upper56(seed) = Upper56(entry.seed)
        /\ Upper56(call.new_seed) = Upper56(U64(0))
        /\ prev_call.op \in Generating /\ calls = 2 =>
               \E s \in Seeds : Upper56(seed) = Upper56(s)

\* C19 is exercised: two generate_* calls in a row on the generator of seed
\* 2^64 - 54283, whose upper 56 bits are not 0; the gate of the second fired
\* and changed the low byte of seed.
C19_Witness ==
    /\ prev_call.op \in Generating
    /\ call.op \in Generating
    /\ call.fired
    /\ seed # entry.seed
    /\ seed[4] = LimbBase - 1

\* The call c made again on the generator g, with c's arguments and c's
\* clock reading, in a build with overflow checks or without: the generator
\* it leaves, whether it panics, and the number and the bytes it returns.
Replay(g, c, checked) ==
    LET Out(r, ret, bytes) ==
            [g |-> r.g, panicked |-> r.panicked, ret |-> ret, bytes |-> bytes]
        Gate(m) == reseed_gate(m.g, m.last_byte, c.now, checked)
    IN  CASE c.op = "add_entropy" ->
                 Out(Untimed(add_entropy(g, c.v)), U64(0), <<>>)
          [] c.op = "combine_entropy" ->
                 Out(Untimed(g), combine_entropy(g), <<>>)
          [] c.op = "mix_entropy" ->
                 Out(Untimed(mix_entropy(g, c.v)), U64(0), <<>>)
          [] c.op = "reseed" ->
                 Out(reseed_gate(reseed_mix(g, c.v), c.v, c.now, checked),
                     U64(0), <<>>)
          [] c.op = "generate_random_bytes" ->
                 Bind(generate_random_bytes(g, c.count), LAMBDA m :
                     Out(Gate(m), U64(0), m.random_bytes))
          [] c.op = "generate_random_number" ->
                 Bind(generate_random_number(g), LAMBDA n :
                     Out(Gate(n), n.random_number, n.random_bytes))
          [] c.op = "generate_bounded_number" ->
                 Bind(generate_random_number(g), LAMBDA n :
                 Bind(BoundedExpr(c.min, c.max, n.random_number), LAMBDA e :
                     Out(bounded_outcome(Gate(n), e, checked), e.ret,
                         n.random_bytes)))
          [] OTHER -> Out(Untimed(g), U64(0), <<>>)

====
